---------------------------- MODULE Spec2Model ----------------------------
(***************************************************************************)
(* Model of app.py, the Streamlit dashboard over the NYC yellow taxi trip  *)
(* records: the cached load-and-clean step (load_data), and one run of the *)
(* script from top to bottom (title, filter widgets, filter, metrics, the  *)
(* chart transforms), re-run on every user interaction.                    *)
(*                                                                         *)
(* Data representation.  A DataFrame is a sequence of rows, a row a record *)
(* keyed by column name.  A cell of a source column is a set: {} is a null *)
(* (NaN / NaT / None) and {v} the value v, so that a comparison with a     *)
(* null is false, as in pandas.  Timestamps count hours from               *)
(* 2024-01-01T00:00, a Monday; a date counts days from 2024-01-01.  A mean *)
(* or a share is an exact fraction [num, den]; 0/0 is NaN.                 *)
(***************************************************************************)
EXTENDS Integers, Sequences, FiniteSets, TLC

VARIABLES
    source,             \* the trip parquet file: [readable, cols, rows]
    zsource,            \* the zone csv file: [readable, cols, rows]
    cache,              \* st.cache_data's entry for load_data: <<>> or <<result>>
    loads,              \* completed executions of load_data's body
    pc,                 \* the position of the current script run
    err,                \* the step of the current run that raised, or "none"
    df,                 \* script variable df
    zones_df,           \* script variable zones_df
    date_range,         \* script variable date_range: <<>> or <<d0, d1>>
    hour_range,         \* script variable hour_range: <<>> or <<h0, h1>>
    selected_payments,  \* script variable selected_payments
    filtered_df,        \* script variable filtered_df
    rendered,           \* the elements the current run has put on the page
    metrics,            \* the values given to the five st.metric calls
    top_zones,          \* script variable top_zones
    payment_counts,     \* script variable payment_counts
    hourly_fare,        \* script variable hourly_fare
    weekly              \* script variable weekly

vars == <<source, zsource, cache, loads, pc, err, df, zones_df, date_range,
          hour_range, selected_payments, filtered_df, rendered, metrics,
          top_zones, payment_counts, hourly_fare, weekly>>

\* the variables a run of the script binds; a re-run starts with none bound
script_vars == <<df, zones_df, date_range, hour_range, selected_payments,
                 filtered_df, metrics, top_zones, payment_counts,
                 hourly_fare, weekly>>

-----------------------------------------------------------------------------
(* Bounds of the model *)

MaxRows == 2        \* rows of a trip file of the dashboard runs
MaxRawRows == 1     \* rows of a trip file of the cleaning runs
NZones == 11        \* pickup zones of the top-zones runs
MaxLoads == 3       \* re-runs stop once load_data's body has run this often

(* Program constants *)

MaxFare == 500
TopN == 10
MinHour == 0
MaxHour == 23
HoursPerDay == 24
DaysPerWeek == 7

-----------------------------------------------------------------------------
(* Cells, columns and pandas' element-wise operations *)

NotNa(v) == v # {}
Val(v) == CHOOSE x \in v : TRUE
Gt(a, b) == \E x \in a, y \in b : x > y
Le(a, b) == \E x \in a, y \in b : x <= y

\* faulty variant: the right bound excluded
BetweenExclusiveRight(x, left, right) == left <= x /\ x < right
\* Series.between(left, right), inclusive="both", on a column without nulls
Between(x, left, right) == left <= x /\ x <= right

\* faulty variant: an empty list taken to mean no restriction
IsinOrAllWhenEmpty(v, values) == values = {} \/ \E x \in v : x \in values
\* Series.isin(values): a null is in no list
Isin(v, values) == \E x \in v : x \in values

RECURSIVE SumSeq(_)
SumSeq(s) == IF s = <<>> THEN 0 ELSE Head(s) + SumSeq(Tail(s))

\* the cells of one column, nulls skipped (skipna)
Column(rows, c) == [i \in 1..Len(SelectSeq(rows, LAMBDA r : NotNa(r[c]))) |->
                       Val(SelectSeq(rows, LAMBDA r : NotNa(r[c]))[i][c])]

NaN == [num |-> 0, den |-> 0]
\* Series.mean(): the mean of no values is NaN, no error
Mean(s) == [num |-> SumSeq(s), den |-> Len(s)]

\* the elements of a set of integers in ascending order
SortedSeq(S) == [k \in 1..Cardinality(S) |->
                    CHOOSE x \in S : Cardinality({y \in S : y < x}) = k - 1]

Range(s) == {s[i] : i \in 1..Len(s)}

-----------------------------------------------------------------------------
(* Calendar: Timestamp.date(), .hour, .day_name() *)

DayNames == <<"Monday", "Tuesday", "Wednesday", "Thursday", "Friday",
              "Saturday", "Sunday">>
DateOf(t) == t \div HoursPerDay
HourOf(t) == t % HoursPerDay
DayName(d) == DayNames[(d % DaysPerWeek) + 1]

-----------------------------------------------------------------------------
(* load_data *)

TripCols == {"tpep_pickup_datetime", "tpep_dropoff_datetime", "PULocationID",
             "DOLocationID", "fare_amount", "total_amount", "trip_distance",
             "payment_type"}
ZoneCols == {"LocationID", "Zone"}

critical_columns == {"tpep_pickup_datetime", "tpep_dropoff_datetime",
                     "PULocationID", "DOLocationID", "fare_amount"}

dropna(rows, subset) == SelectSeq(rows, LAMBDA r : \A c \in subset : NotNa(r[c]))

\* faulty variant: fare_amount >= 0 in place of > 0
CleanMaskFareNotNegative(r) ==
    /\ Gt(r.trip_distance, {0})
    /\ \E x \in r.fare_amount : x >= 0
    /\ Le(r.fare_amount, {MaxFare})
    /\ Gt(r.tpep_dropoff_datetime, r.tpep_pickup_datetime)
\* the boolean mask of lines 16-17
CleanMask(r) ==
    /\ Gt(r.trip_distance, {0})
    /\ Gt(r.fare_amount, {0})
    /\ Le(r.fare_amount, {MaxFare})
    /\ Gt(r.tpep_dropoff_datetime, r.tpep_pickup_datetime)

\* lines 19-22: the derived columns
Derive(r) == r @@ [pickup_date |-> DateOf(Val(r.tpep_pickup_datetime)),
                   pickup_hour |-> HourOf(Val(r.tpep_pickup_datetime)),
                   pickup_dayofweek |->
                       DayName(DateOf(Val(r.tpep_pickup_datetime)))]

Clean(rows) ==
    LET kept == SelectSeq(dropna(rows, critical_columns), CleanMask)
    IN  [i \in 1..Len(kept) |-> Derive(kept[i])]

\* read_parquet / read_csv raise on an unreadable file; dropna(subset=...)
\* and df['trip_distance'] raise KeyError on an absent column
LoadRaises(src, zsrc) ==
    \/ ~src.readable
    \/ ~zsrc.readable
    \/ ~(critical_columns \cup {"trip_distance"} \subseteq src.cols)

LoadResult(src, zsrc) == [df |-> Clean(src.rows), zones_df |-> zsrc.rows]

-----------------------------------------------------------------------------
(* Lines 32-57: the filter widgets and the filter *)

payment_options == <<1, 2, 3, 4, 5>>
payment_labels == (1 :> "Credit card") @@ (2 :> "Cash") @@ (3 :> "No charge")
                  @@ (4 :> "Dispute") @@ (5 :> "Unknown")

\* df['pickup_date'].min() and .max(), the bounds and the default of date_input
MinDate(rows) == CHOOSE d \in {rows[i].pickup_date : i \in 1..Len(rows)} :
                     \A j \in 1..Len(rows) : d <= rows[j].pickup_date
MaxDate(rows) == CHOOSE d \in {rows[i].pickup_date : i \in 1..Len(rows)} :
                     \A j \in 1..Len(rows) : d >= rows[j].pickup_date

\* the slider positions and the multiselect choices the user makes in the model
HourPicks == {MinHour, 9, MaxHour}
PaymentPicks == (SUBSET {1, 2}) \cup {Range(payment_options)}

\* the boolean mask of lines 54-56
FilterMask(r, dates, hours, payments) ==
    /\ Between(r.pickup_date, dates[1], dates[2])
    /\ Between(r.pickup_hour, hours[1], hours[2])
    /\ Isin(r.payment_type, payments)

FilterRows(rows, dates, hours, payments) ==
    SelectSeq(rows, LAMBDA r : FilterMask(r, dates, hours, payments))

-----------------------------------------------------------------------------
(* Lines 61-65: the metrics *)

\* (dropoff - pickup).dt.total_seconds()
DurationSeconds(rows) ==
    [i \in 1..Len(rows) |-> (Val(rows[i].tpep_dropoff_datetime)
                             - Val(rows[i].tpep_pickup_datetime)) * 3600]

MetricValues(rows) ==
    [trips    |-> Len(rows),
     avg_fare |-> Mean(Column(rows, "fare_amount")),
     revenue  |-> SumSeq(Column(rows, "total_amount")),
     avg_distance |-> Mean(Column(rows, "trip_distance")),
     avg_duration |-> [num |-> Mean(DurationSeconds(rows)).num,
                       den |-> Mean(DurationSeconds(rows)).den * 60]]

-----------------------------------------------------------------------------
(* Lines 70-71: the top pickup zones *)

\* groupby('PULocationID').size(): one entry per key, keys ascending
GroupSize(rows) ==
    LET keys == SortedSeq({Val(rows[i].PULocationID) : i \in 1..Len(rows)})
    IN  [k \in 1..Len(keys) |->
            [PULocationID |-> keys[k],
             trip_count |-> Len(SelectSeq(rows,
                              LAMBDA r : r.PULocationID = {keys[k]}))]]

\* faulty variant: head(n) in place of nlargest(n)
FirstN(n, s) == SubSeq(s, 1, IF Len(s) < n THEN Len(s) ELSE n)
\* Series.nlargest(n), keep='first': descending, ties in their order in s;
\* the entry at position k is the one that k - 1 entries precede
NLargest(n, s) ==
    [k \in 1..(IF Len(s) < n THEN Len(s) ELSE n) |->
        s[CHOOSE i \in 1..Len(s) :
            Cardinality({j \in 1..Len(s) :
                \/ s[j].trip_count > s[i].trip_count
                \/ s[j].trip_count = s[i].trip_count /\ j < i}) = k - 1]]

\* left.merge(right, left_on='PULocationID', right_on='LocationID'): an inner
\* join, in the order of the left keys
RECURSIVE Merge(_, _)
Merge(left, right) ==
    IF left = <<>> THEN <<>>
    ELSE LET m == SelectSeq(right,
                     LAMBDA z : z.LocationID = Head(left).PULocationID)
         IN  [k \in 1..Len(m) |-> Head(left) @@ m[k]] \o Merge(Tail(left), right)

TopZones(rows, zones) == Merge(NLargest(TopN, GroupSize(rows)), zones)

-----------------------------------------------------------------------------
(* Lines 76-78: the payment breakdown *)

\* the distinct values of s in the order of their first appearance
RECURSIVE Uniques(_)
Uniques(s) == IF s = <<>> THEN <<>>
              ELSE <<Head(s)>> \o Uniques(SelectSeq(Tail(s),
                                            LAMBDA x : x # Head(s)))

RawCounts(col) ==
    LET u == Uniques(col)
    IN  [k \in 1..Len(u) |->
            [payment_type |-> u[k],
             trip_count |-> Len(SelectSeq(col, LAMBDA x : x = u[k]))]]

\* faulty variant: value_counts() without normalize=True
ValueCountsNotNormalized(rows) ==
    LET col == Column(rows, "payment_type")
        sorted == NLargest(Len(col), RawCounts(col))
    IN  [k \in 1..Len(sorted) |->
            [payment_type |-> sorted[k].payment_type,
             percentage |-> [num |-> sorted[k].trip_count, den |-> 1]]]
\* value_counts(normalize=True): nulls dropped, descending, each count
\* divided by the number of non-null values
ValueCounts(rows) ==
    LET col == Column(rows, "payment_type")
        sorted == NLargest(Len(col), RawCounts(col))
    IN  [k \in 1..Len(sorted) |->
            [payment_type |-> sorted[k].payment_type,
             percentage |-> [num |-> sorted[k].trip_count, den |-> Len(col)]]]

\* Series.map(dict): a value that is no key of the dict becomes NaN
MapLabel(code) == IF code \in DOMAIN payment_labels THEN payment_labels[code]
                  ELSE "NaN"

PaymentCounts(rows) ==
    LET vc == ValueCounts(rows)
    IN  [k \in 1..Len(vc) |->
            [payment_type |-> MapLabel(vc[k].payment_type),
             percentage |-> [num |-> vc[k].percentage.num * 100,
                             den |-> vc[k].percentage.den]]]

-----------------------------------------------------------------------------
(* Lines 84 and 95: average fare by hour, and the weekday x hour grid *)

HoursIn(rows) == SortedSeq({rows[i].pickup_hour : i \in 1..Len(rows)})

HourlyFare(rows) ==
    [k \in 1..Len(HoursIn(rows)) |->
        [pickup_hour |-> HoursIn(rows)[k],
         avg_fare |-> Mean(Column(SelectSeq(rows,
                        LAMBDA r : r.pickup_hour = HoursIn(rows)[k]),
                        "fare_amount"))]]

\* the group keys sort as strings
DayNamesSorted == <<"Friday", "Monday", "Saturday", "Sunday", "Thursday",
                    "Tuesday", "Wednesday">>

\* groupby(['pickup_dayofweek', 'pickup_hour']).size().unstack(fill_value=0):
\* the index holds the weekdays of the rows, the columns the hours of the rows
Weekly(rows) ==
    LET days == SelectSeq(DayNamesSorted,
                    LAMBDA d : \E i \in 1..Len(rows) : rows[i].pickup_dayofweek = d)
        hours == HoursIn(rows)
    IN  [index |-> days,
         columns |-> hours,
         values |-> [d \in Range(days), h \in Range(hours) |->
                        Len(SelectSeq(rows, LAMBDA r :
                            r.pickup_dayofweek = d /\ r.pickup_hour = h))]]

-----------------------------------------------------------------------------
(* The source files the model runs on *)

\* a trip record picked up at hour t (one hour long), in zone pu
Trip(t, pu, fare, pay) ==
    [tpep_pickup_datetime |-> {t}, tpep_dropoff_datetime |-> {t + 1},
     PULocationID |-> {pu}, DOLocationID |-> {1}, fare_amount |-> {fare},
     total_amount |-> {fare + 2}, trip_distance |-> {2}, payment_type |-> pay]

\* payment_type as the files hold it: null, 0 (outside the options), 1, 2
PaymentCells == {{}, {0}, {1}, {2}}

\* day 0 at 09:00 in zone 1, day 1 at 23:00 in zone 2; one row with fare 0
RawRows == {Trip(9, 1, 10, pay) : pay \in PaymentCells}
           \cup {Trip(47, 2, 20, pay) : pay \in PaymentCells}
           \cup {Trip(9, 1, 0, {1})}

SeqsUpTo(S, n) == UNION {[1..k -> S] : k \in 0..n}

ZoneRow(z) == [LocationID |-> z, Zone |-> <<"Zone", z>>]
\* a lookup of the zones S: one row per zone id
ZoneTable(S) == [k \in 1..Len(SortedSeq(S)) |-> ZoneRow(SortedSeq(S)[k])]

TripFile(rows) == [readable |-> TRUE, cols |-> TripCols, rows |-> rows]
ZoneFile(rows) == [readable |-> TRUE, cols |-> ZoneCols, rows |-> rows]

BaseTrips == <<Trip(9, 1, 10, {1})>>
\* a trip file with one column absent, or unreadable
DefectiveTripFiles ==
    {[readable |-> TRUE, cols |-> TripCols \ {c}, rows |-> BaseTrips] : c \in TripCols}
    \cup {[readable |-> FALSE, cols |-> TripCols, rows |-> BaseTrips]}
DefectiveZoneFiles ==
    {[readable |-> TRUE, cols |-> ZoneCols \ {c}, rows |-> ZoneTable({1})] : c \in ZoneCols}
    \cup {[readable |-> FALSE, cols |-> ZoneCols, rows |-> ZoneTable({1})]}

\* every required column present and both files readable
SourceIntact ==
    /\ source.readable /\ zsource.readable
    /\ TripCols \subseteq source.cols /\ ZoneCols \subseteq zsource.cols

-----------------------------------------------------------------------------
(* The script, run from top to bottom *)

Unbound == <<>>

Fresh ==
    /\ pc = "start" /\ err = "none" /\ rendered = {}
    /\ df = Unbound /\ zones_df = Unbound
    /\ date_range = Unbound /\ hour_range = Unbound /\ selected_payments = {}
    /\ filtered_df = Unbound /\ metrics = Unbound /\ top_zones = Unbound
    /\ payment_counts = Unbound /\ hourly_fare = Unbound /\ weekly = Unbound

Init ==
    /\ \/ /\ source \in {TripFile(t) : t \in SeqsUpTo(RawRows, MaxRows)}
          /\ zsource = ZoneFile(ZoneTable({1}))
       \/ /\ source \in DefectiveTripFiles
          /\ zsource = ZoneFile(ZoneTable({1}))
       \/ /\ source = TripFile(BaseTrips)
          /\ zsource \in DefectiveZoneFiles
    /\ cache = <<>> /\ loads = 0
    /\ Fresh

\* an exception ends the run; what it has rendered stays on the page
Raise(step) == pc' = "error" /\ err' = step

\* faulty variant: load_data without @st.cache_data
LoadDataUncached ==
    /\ pc = "start"
    /\ IF LoadRaises(source, zsource)
       THEN /\ Raise("load_data")
            /\ UNCHANGED <<cache, loads, df, zones_df>>
       ELSE /\ cache' = <<LoadResult(source, zsource)>>
            /\ loads' = loads + 1
            /\ df' = LoadResult(source, zsource).df
            /\ zones_df' = LoadResult(source, zsource).zones_df
            /\ pc' = "title" /\ err' = err
    /\ UNCHANGED <<source, zsource, date_range, hour_range, selected_payments,
                   filtered_df, rendered, metrics, top_zones, payment_counts,
                   hourly_fare, weekly>>
\* line 26: df, zones_df = load_data(), under @st.cache_data: the body runs
\* only when the cache holds no entry, and an exception stores none
LoadData ==
    /\ pc = "start"
    /\ IF cache # <<>>
       THEN /\ df' = cache[1].df
            /\ zones_df' = cache[1].zones_df
            /\ pc' = "title" /\ err' = err
            /\ UNCHANGED <<cache, loads>>
       ELSE IF LoadRaises(source, zsource)
       THEN /\ Raise("load_data")
            /\ UNCHANGED <<cache, loads, df, zones_df>>
       ELSE /\ cache' = <<LoadResult(source, zsource)>>
            /\ loads' = loads + 1
            /\ df' = LoadResult(source, zsource).df
            /\ zones_df' = LoadResult(source, zsource).zones_df
            /\ pc' = "title" /\ err' = err
    /\ UNCHANGED <<source, zsource, date_range, hour_range, selected_payments,
                   filtered_df, rendered, metrics, top_zones, payment_counts,
                   hourly_fare, weekly>>

\* lines 28-29
Title ==
    /\ pc = "title"
    /\ rendered' = rendered \cup {"title"}
    /\ pc' = "date_input"
    /\ UNCHANGED <<source, zsource, cache, loads, err, script_vars>>

\* lines 32-37: the minimum of an empty column is NaN, which date_input
\* refuses; else the user's two dates lie within [min, max].  The filter
\* reads date_range[0] and date_range[1] whatever their order, so the model
\* lets the pair come in either order.
DateInput ==
    /\ pc = "date_input"
    /\ IF df = <<>>
       THEN /\ Raise("date_input")
            /\ UNCHANGED <<date_range, rendered>>
       ELSE /\ \E d0, d1 \in MinDate(df)..MaxDate(df) : date_range' = <<d0, d1>>
            /\ rendered' = rendered \cup {"date_input"}
            /\ pc' = "slider" /\ err' = err
    /\ UNCHANGED <<source, zsource, cache, loads, df, zones_df, hour_range,
                   selected_payments, filtered_df, metrics, top_zones,
                   payment_counts, hourly_fare, weekly>>

\* lines 39-42: two positions of the slider, in either order (see DateInput)
HourSlider ==
    /\ pc = "slider"
    /\ \E h0, h1 \in HourPicks : hour_range' = <<h0, h1>>
    /\ rendered' = rendered \cup {"slider"}
    /\ pc' = "multiselect"
    /\ UNCHANGED <<source, zsource, cache, loads, err, df, zones_df, date_range,
                   selected_payments, filtered_df, metrics, top_zones,
                   payment_counts, hourly_fare, weekly>>

\* lines 44-51
PaymentSelect ==
    /\ pc = "multiselect"
    /\ \E p \in PaymentPicks : selected_payments' = p
    /\ rendered' = rendered \cup {"multiselect"}
    /\ pc' = "filter"
    /\ UNCHANGED <<source, zsource, cache, loads, err, df, zones_df, date_range,
                   hour_range, filtered_df, metrics, top_zones,
                   payment_counts, hourly_fare, weekly>>

\* lines 53-57: df['payment_type'] raises KeyError on an absent column
Filter ==
    /\ pc = "filter"
    /\ IF "payment_type" \notin source.cols
       THEN /\ Raise("filter")
            /\ UNCHANGED filtered_df
       ELSE /\ filtered_df' = FilterRows(df, date_range, hour_range,
                                         selected_payments)
            /\ pc' = "metrics" /\ err' = err
    /\ UNCHANGED <<source, zsource, cache, loads, df, zones_df, date_range,
                   hour_range, selected_payments, rendered, metrics, top_zones,
                   payment_counts, hourly_fare, weekly>>

\* faulty variant: a mean computed as sum / len, which raises on no rows
MetricsMeanBySumOverLen ==
    /\ pc = "metrics"
    /\ IF "total_amount" \notin source.cols \/ filtered_df = <<>>
       THEN /\ Raise("metrics")
            /\ rendered' = rendered \cup {"metric_trips"}
            /\ UNCHANGED metrics
       ELSE /\ metrics' = MetricValues(filtered_df)
            /\ rendered' = rendered \cup {"metric_trips", "metric_fare",
                   "metric_revenue", "metric_distance", "metric_duration"}
            /\ pc' = "tab1" /\ err' = err
    /\ UNCHANGED <<source, zsource, cache, loads, df, zones_df, date_range,
                   hour_range, selected_payments, filtered_df, top_zones,
                   payment_counts, hourly_fare, weekly>>
\* lines 59-65: filtered_df['total_amount'] raises KeyError on an absent
\* column, after the first two metrics are on the page
Metrics ==
    /\ pc = "metrics"
    /\ IF "total_amount" \notin source.cols
       THEN /\ Raise("metrics")
            /\ rendered' = rendered \cup {"metric_trips", "metric_fare"}
            /\ UNCHANGED metrics
       ELSE /\ metrics' = MetricValues(filtered_df)
            /\ rendered' = rendered \cup {"metric_trips", "metric_fare",
                   "metric_revenue", "metric_distance", "metric_duration"}
            /\ pc' = "tab1" /\ err' = err
    /\ UNCHANGED <<source, zsource, cache, loads, df, zones_df, date_range,
                   hour_range, selected_payments, filtered_df, top_zones,
                   payment_counts, hourly_fare, weekly>>

\* lines 69-81: zones_df[['LocationID', 'Zone']] raises KeyError on an absent
\* column, before the first chart
Tab1 ==
    /\ pc = "tab1"
    /\ IF ~(ZoneCols \subseteq zsource.cols)
       THEN /\ Raise("tab1")
            /\ UNCHANGED <<top_zones, payment_counts, rendered>>
       ELSE /\ top_zones' = TopZones(filtered_df, zones_df)
            /\ payment_counts' = PaymentCounts(filtered_df)
            /\ rendered' = rendered \cup {"bar", "pie"}
            /\ pc' = "tab2" /\ err' = err
    /\ UNCHANGED <<source, zsource, cache, loads, df, zones_df, date_range,
                   hour_range, selected_payments, filtered_df, metrics,
                   hourly_fare, weekly>>

\* lines 83-92
Tab2 ==
    /\ pc = "tab2"
    /\ hourly_fare' = HourlyFare(filtered_df)
    /\ rendered' = rendered \cup {"line", "histogram"}
    /\ pc' = "tab3"
    /\ UNCHANGED <<source, zsource, cache, loads, err, df, zones_df, date_range,
                   hour_range, selected_payments, filtered_df, metrics,
                   top_zones, payment_counts, weekly>>

\* lines 94-98
Tab3 ==
    /\ pc = "tab3"
    /\ weekly' = Weekly(filtered_df)
    /\ rendered' = rendered \cup {"heatmap"}
    /\ pc' = "done"
    /\ UNCHANGED <<source, zsource, cache, loads, err, df, zones_df, date_range,
                   hour_range, selected_payments, filtered_df, metrics,
                   top_zones, payment_counts, hourly_fare>>

\* a user interaction: Streamlit runs the script again from the top, in a
\* fresh namespace and on an empty page; only the cache outlives the run
Rerun ==
    /\ pc \in {"done", "error"}
    /\ loads < MaxLoads
    /\ pc' = "start" /\ err' = "none" /\ rendered' = {}
    /\ df' = Unbound /\ zones_df' = Unbound
    /\ date_range' = Unbound /\ hour_range' = Unbound
    /\ selected_payments' = {}
    /\ filtered_df' = Unbound /\ metrics' = Unbound /\ top_zones' = Unbound
    /\ payment_counts' = Unbound /\ hourly_fare' = Unbound
    /\ weekly' = Unbound
    /\ UNCHANGED <<source, zsource, cache, loads>>

Next ==
    \/ LoadData \/ Title \/ DateInput \/ HourSlider \/ PaymentSelect
    \/ Filter \/ Metrics \/ Tab1 \/ Tab2 \/ Tab3 \/ Rerun

Spec == Init /\ [][Next]_vars

-----------------------------------------------------------------------------
(* Cleaning runs: load_data on every trip file of up to MaxRawRows rows whose *)
(* cells range over nulls and the values around each threshold of the mask  *)

CellsPickup == {{}, {9}}
CellsDropoff == {{}, {8}, {9}, {10}}
CellsZone == {{}, {1}}
CellsFare == {{}, {-1}, {0}, {1}, {MaxFare}, {MaxFare + 1}}
CellsDistance == {{}, {0}, {2}}

UncleanRows ==
    {[tpep_pickup_datetime |-> p, tpep_dropoff_datetime |-> d,
      PULocationID |-> pu, DOLocationID |-> do, fare_amount |-> f,
      total_amount |-> {12}, trip_distance |-> dist, payment_type |-> {1}] :
        p \in CellsPickup, d \in CellsDropoff, pu \in CellsZone,
        do \in CellsZone, f \in CellsFare, dist \in CellsDistance}

InitClean ==
    /\ source \in {TripFile(t) : t \in SeqsUpTo(UncleanRows, MaxRawRows)}
    /\ zsource = ZoneFile(ZoneTable({1}))
    /\ cache = <<>> /\ loads = 0
    /\ Fresh

SpecClean == InitClean /\ [][LoadData]_vars

-----------------------------------------------------------------------------
(* Top-zones runs: the script at line 69, after a run with the default      *)
(* selection over a file of NZones pickup zones with 1 or 2 trips each      *)
(* (none, one, two, all but one or all of them with 2) and a lookup that    *)
(* lacks at most one of them                                                *)

TripCounts == {1, 2}
ZoneCountings ==
    {c \in [1..NZones -> TripCounts] :
        Cardinality({z \in 1..NZones : c[z] = 2})
            \in {0, 1, 2, NZones - 1, NZones}}

RECURSIVE ZoneTrips(_, _)
ZoneTrips(c, z) == IF z = 0 THEN <<>>
                   ELSE ZoneTrips(c, z - 1) \o [i \in 1..c[z] |-> Trip(9, z, 10, {1})]

InitZones ==
    \E c \in ZoneCountings, absent \in 0..NZones :
        LET res == LoadResult(TripFile(ZoneTrips(c, NZones)),
                              ZoneFile(ZoneTable((1..NZones) \ {absent})))
            view == FilterRows(res.df, <<MinDate(res.df), MaxDate(res.df)>>,
                               <<MinHour, MaxHour>>, Range(payment_options))
        IN  /\ source = TripFile(ZoneTrips(c, NZones))
            /\ zsource = ZoneFile(ZoneTable((1..NZones) \ {absent}))
            /\ cache = <<res>> /\ loads = 1
            /\ pc = "tab1" /\ err = "none"
            /\ df = res.df /\ zones_df = res.zones_df
            /\ date_range = <<MinDate(res.df), MaxDate(res.df)>>
            /\ hour_range = <<MinHour, MaxHour>>
            /\ selected_payments = Range(payment_options)
            /\ filtered_df = view
            /\ metrics = MetricValues(view)
            /\ rendered = {"title", "date_input", "slider", "multiselect",
                           "metric_trips", "metric_fare", "metric_revenue",
                           "metric_distance", "metric_duration"}
            /\ top_zones = Unbound /\ payment_counts = Unbound
            /\ hourly_fare = Unbound /\ weekly = Unbound

SpecZones == InitZones /\ [][Tab1]_vars

-----------------------------------------------------------------------------
(* Positions of a run *)

\* the filter of lines 53-57 has produced filtered_df
FilterDone ==
    \/ pc \in {"metrics", "tab1", "tab2", "tab3", "done"}
    \/ pc = "error" /\ err \in {"metrics", "tab1"}

MetricsDone == pc \in {"tab1", "tab2", "tab3", "done"} \/ (pc = "error" /\ err = "tab1")
Tab1Done == pc \in {"tab2", "tab3", "done"}
Tab2Done == pc \in {"tab3", "done"}

\* load_data has returned in this run
Loaded == pc # "start" /\ err # "load_data"

-----------------------------------------------------------------------------
(* C1 *)

\* a source row that meets every condition of the cleaning
RowIsValid(r) ==
    /\ r.tpep_pickup_datetime # {} /\ r.tpep_dropoff_datetime # {}
    /\ r.PULocationID # {} /\ r.DOLocationID # {} /\ r.fare_amount # {}
    /\ r.trip_distance # {}
    /\ Val(r.tpep_dropoff_datetime) > Val(r.tpep_pickup_datetime)
    /\ Val(r.trip_distance) > 0
    /\ 0 < Val(r.fare_amount) /\ Val(r.fare_amount) <= 500

SourceColumns(r) == [c \in TripCols |-> r[c]]

\* C1: every row of the table load_data returns has dropoff > pickup,
\* trip_distance > 0, 0 < fare_amount <= 500 and no null among pickup time,
\* dropoff time, pickup zone, dropoff zone and fare amount; and the returned
\* rows are exactly the rows of the file that meet these conditions, in order.
C1_CleanKeepsExactlyValidRows ==
    Loaded =>
        /\ \A i \in 1..Len(df) : RowIsValid(df[i])
        /\ [i \in 1..Len(df) |-> SourceColumns(df[i])]
               = SelectSeq(source.rows, RowIsValid)

\* a row with the largest fare allowed is kept
C1_Witness ==
    /\ Loaded /\ Len(source.rows) > 0 /\ Len(df) = Len(source.rows)
    /\ \E i \in 1..Len(df) : df[i].fare_amount = {500}

-----------------------------------------------------------------------------
(* C2 *)

\* C2: the filtered view is exactly the rows of the cleaned table with
\* d0 <= pickup_date <= d1 and h0 <= pickup_hour <= h1 and payment_type among
\* the selected codes, both bounds of both ranges included.
C2_FilterExact ==
    FilterDone =>
        filtered_df = SelectSeq(df, LAMBDA r :
            /\ date_range[1] <= r.pickup_date /\ r.pickup_date <= date_range[2]
            /\ hour_range[1] <= r.pickup_hour /\ r.pickup_hour <= hour_range[2]
            /\ r.payment_type # {} /\ r.payment_type \subseteq selected_payments)

\* a one-day, one-hour selection keeps a row on its bounds and drops another
C2_Witness ==
    /\ FilterDone
    /\ date_range[1] = date_range[2] /\ hour_range[1] = hour_range[2]
    /\ filtered_df # <<>> /\ Len(filtered_df) < Len(df)

-----------------------------------------------------------------------------
(* C3 *)

\* the selection the widgets start with
FullSelection ==
    /\ date_range = <<MinDate(df), MaxDate(df)>>
    /\ hour_range = <<MinHour, MaxHour>>
    /\ selected_payments = Range(payment_options)

\* C3: with the full date range, the full hour range and every payment option
\* selected, the filtered view is the whole cleaned table.
C3_FullSelectionKeepsAll == (FilterDone /\ FullSelection) => filtered_df = df

-----------------------------------------------------------------------------
(* C4 *)

\* C4: when a required column is absent or a source file is unreadable, the
\* run fails and has rendered no element of the dashboard.
C4_NoPartialDashboard == ~SourceIntact => (rendered = {} /\ pc # "done")

-----------------------------------------------------------------------------
(* C5 *)

AllHours == [i \in 1..(MaxHour - MinHour + 1) |-> MinHour + i - 1]

\* C5: the heatmap grid has the 7 weekdays as rows and the hours 0..23 as
\* columns for every filtered view.
C5_HeatmapGridIs7By24 ==
    pc = "done" =>
        /\ Range(weekly.index) = Range(DayNames)
        /\ weekly.columns = AllHours

-----------------------------------------------------------------------------
(* C6 *)

\* C6: with no payment type selected, or with d1 < d0 or h1 < h0, the filter
\* step does not raise and the filtered view is empty.
C6_EmptyOrInvertedSelection ==
    (/\ FilterDone \/ (pc = "error" /\ err = "filter")
     /\ "payment_type" \in source.cols
     /\ \/ selected_payments = {}
        \/ date_range[2] < date_range[1]
        \/ hour_range[2] < hour_range[1])
    => (err # "filter" /\ filtered_df = <<>>)

\* no payment type selected, over a table with rows
C6_Witness == FilterDone /\ df # <<>> /\ selected_payments = {}

-----------------------------------------------------------------------------
(* C7 *)

\* C7: on an empty filtered view the run raises nowhere: the trip count is 0,
\* the revenue 0, the means NaN, and every chart transform yields no rows.
C7_EmptyViewRenders ==
    (SourceIntact /\ FilterDone /\ filtered_df = <<>>) =>
        /\ pc # "error"
        /\ MetricsDone =>
              /\ metrics.trips = 0 /\ metrics.revenue = 0
              /\ metrics.avg_fare = NaN /\ metrics.avg_distance = NaN
              /\ metrics.avg_duration = NaN
        /\ Tab1Done => (top_zones = <<>> /\ payment_counts = <<>>)
        /\ Tab2Done => hourly_fare = <<>>
        /\ pc = "done" => (weekly.index = <<>> /\ weekly.columns = <<>>)

\* a run over a table with rows ends with everything rendered from no rows
C7_Witness ==
    /\ pc = "done" /\ df # <<>> /\ filtered_df = <<>>
    /\ {"metric_trips", "bar", "pie", "line", "histogram", "heatmap"}
           \subseteq rendered

-----------------------------------------------------------------------------
(* C8 *)

ZoneTripCount(z) == Len(SelectSeq(filtered_df, LAMBDA r : r.PULocationID = {z}))
ZonesOfView == {Val(filtered_df[i].PULocationID) : i \in 1..Len(filtered_df)}
LookupIds == {zones_df[i].LocationID : i \in 1..Len(zones_df)}

\* C8: the top-zones table lists at most 10 zones, in descending order of
\* trip count; every listed zone is in the lookup, carries its own trip
\* count, and fewer than 10 zones have more trips than it; and a zone that
\* the lookup lacks is not listed.
C8_TopZones ==
    Tab1Done =>
        /\ Len(top_zones) <= TopN
        /\ \A i, j \in 1..Len(top_zones) :
               i < j => /\ top_zones[i].trip_count >= top_zones[j].trip_count
                        /\ top_zones[i].PULocationID # top_zones[j].PULocationID
        /\ \A i \in 1..Len(top_zones) :
               /\ top_zones[i].PULocationID \in LookupIds \cap ZonesOfView
               /\ top_zones[i].trip_count = ZoneTripCount(top_zones[i].PULocationID)
               /\ Cardinality({z \in ZonesOfView :
                      ZoneTripCount(z) > top_zones[i].trip_count}) < TopN
        /\ \A z \in ZonesOfView :
               Cardinality({y \in ZonesOfView : ZoneTripCount(y) >= ZoneTripCount(z)})
                   <= TopN /\ z \in LookupIds
               => \E i \in 1..Len(top_zones) : top_zones[i].PULocationID = z

\* more than 10 zones in the view, one of the ten busiest absent from the
\* lookup, and counts that differ
C8_Witness ==
    /\ Tab1Done
    /\ Cardinality(ZonesOfView) > TopN
    /\ Len(top_zones) = TopN - 1
    /\ top_zones[1].trip_count > top_zones[Len(top_zones)].trip_count

-----------------------------------------------------------------------------
(* C9 *)

Labels == {payment_labels[c] : c \in DOMAIN payment_labels}

\* the rows of the view whose payment code has the label
RowsLabelled(label) ==
    Len(SelectSeq(filtered_df, LAMBDA r :
        \E c \in r.payment_type : c \in DOMAIN payment_labels
                                  /\ payment_labels[c] = label))

RECURSIVE FractionSum(_)
FractionSum(s) ==
    IF s = <<>> THEN [num |-> 0, den |-> 1]
    ELSE LET t == FractionSum(Tail(s))
         IN  [num |-> Head(s).num * t.den + t.num * Head(s).den,
              den |-> Head(s).den * t.den]

\* C9: for a non-empty view, each listed share is 100 * (rows of that type) /
\* (rows of the view), lies in 0..100 and carries a label of the enumeration;
\* every type of the view is listed; the shares sum to 100.
C9_PaymentShares ==
    (Tab1Done /\ filtered_df # <<>>) =>
        /\ \A k \in 1..Len(payment_counts) :
               LET e == payment_counts[k]
               IN  /\ e.payment_type \in Labels
                   /\ e.percentage.den > 0
                   /\ e.percentage.num * Len(filtered_df)
                          = 100 * RowsLabelled(e.payment_type) * e.percentage.den
                   /\ 0 <= e.percentage.num
                   /\ e.percentage.num <= 100 * e.percentage.den
        /\ \A i \in 1..Len(filtered_df) :
               \E k \in 1..Len(payment_counts) :
                   payment_counts[k].payment_type
                       = MapLabel(Val(filtered_df[i].payment_type))
        /\ LET total == FractionSum([k \in 1..Len(payment_counts) |->
                                        payment_counts[k].percentage])
           IN  total.num = 100 * total.den

\* a view with two payment types
C9_Witness ==
    /\ Tab1Done /\ Len(payment_counts) = 2
    /\ payment_counts[1].payment_type # payment_counts[2].payment_type

-----------------------------------------------------------------------------
(* C10 *)

\* C10: over any sequence of runs load_data's body runs at most once; once
\* the cache holds the loaded tables no step changes them; and the df and
\* zones_df of every run are the cached tables, as computed from the files.
C10_LoadOnceBaseUnchanged ==
    /\ [](/\ loads <= 1
          /\ Loaded => /\ cache = <<LoadResult(source, zsource)>>
                       /\ df = cache[1].df
                       /\ zones_df = cache[1].zones_df)
    /\ [][cache # <<>> => cache' = cache]_vars

\* a re-run starts with the tables of an earlier run in the cache
C10_Witness == pc = "start" /\ cache # <<>> /\ loads = 1 /\ cache[1].df # <<>>

=============================================================================
